---- MODULE Spec2Model ----
(***************************************************************************)
(* A model of bidict's BidirectionalMapping (src/bidict/_common.py): the   *)
(* two synchronized dictionaries _fwd and _inv, the inverse view that      *)
(* aliases them with roles swapped, the duplication behaviors, the two     *)
(* deduplication generators (_dedup_in, _dedup) and _update, which pulls   *)
(* pairs through them lazily (atomic=False) or realizes them first         *)
(* (atomic=True).                                                          *)
(*                                                                         *)
(* Dictionaries live on a heap (dicts) and objects (objs) hold references  *)
(* to them, so that aliasing and copying are visible in the state.         *)
(*                                                                         *)
(* frozen holds the instances of frozenbidict (src/bidict/_frozen.py) with *)
(* their cached hash, under the class attribute _HASH_NITEMS_MAX.          *)
(***************************************************************************)
EXTENDS Integers, Sequences, FiniteSets, TLC

VARIABLES dicts, objs, last, frozen

vars == <<dicts, objs, last, frozen>>

(* ------------------------------ bounds -------------------------------- *)

\* Keys and values are drawn from 1..NumElems (one universe: the inverse
\* view uses values as keys).
NumElems == 2

\* The longest input of one call (positional items plus named pairs).
MaxLen == 3

\* The number of mappings (each with its inverse view) on the heap, and the
\* longest input of one call, in the specification with copies (SpecCopy).
MaxMaps == 2

MaxCopyLen == 2

\* The number of frozenbidict instances (SpecHash).
MaxFrozen == 2

\* The width of a hash value, in bits.
HashBits == 8

\* The number of hash() calls on one instance.
MaxHashCalls == 2

(* ----------------------------- dictionaries --------------------------- *)

Elems == 1..NumElems

\* _missing = object(): the sentinel of dict.get / dict.pop, equal to no element.
_missing == 0

RAISE == "RAISE"
OVERWRITE == "OVERWRITE"
IGNORE == "IGNORE"

DuplicationBehavior == {RAISE, OVERWRITE, IGNORE}

\* dcls(): a new empty dictionary.
EmptyDict == << >>

\* dict.get(k, _missing)
Get(d, k) == IF k \in DOMAIN d THEN d[k] ELSE _missing

\* dict.pop(k, default): the dictionary that is left.
Pop(d, k) == [x \in (DOMAIN d) \ {k} |-> d[x]]

\* d[k] = v
Put(d, k, v) == [x \in (DOMAIN d) \cup {k} |-> IF x = k THEN v ELSE d[x]]

\* dict.items(), as a set
Items(d) == {<<k, d[k]>> : k \in DOMAIN d}

RECURSIVE DictOf(_)
\* dict(items): a later item replaces an earlier one with the same key.
DictOf(s) ==
    IF Len(s) = 0 THEN EmptyDict
    ELSE LET n == Len(s) IN Put(DictOf(SubSeq(s, 1, n - 1)), s[n][1], s[n][2])

\* The items with key and value exchanged.
Swapped(s) == [i \in 1..Len(s) |-> <<s[i][2], s[i][1]>>]

(* ------------------------------- errors ------------------------------- *)

NoErr == [type |-> "none", args |-> << >>]

KeyNotUniqueError(k) == [type |-> "KeyNotUnique", args |-> <<k>>]

ValueNotUniqueError(v) == [type |-> "ValueNotUnique", args |-> <<v>>]

KeyExistsError(k, oldv) == [type |-> "KeyExists", args |-> <<k, oldv>>]

ValueExistsError(oldk, v) == [type |-> "ValueExists", args |-> <<oldk, v>>]

\* class KeyExistsError(KeyNotUniqueError)
IsKeyNotUnique(e) == e.type \in {"KeyNotUnique", "KeyExists"}

\* class ValueExistsError(ValueNotUniqueError)
IsValueNotUnique(e) == e.type \in {"ValueNotUnique", "ValueExists"}

\* class UniquenessError
IsUniquenessError(e) == IsKeyNotUnique(e) \/ IsValueNotUnique(e)

(* ------------------------ applying one pair --------------------------- *)

\* ApplyPair without "_fwd.pop(_inv.pop(v, _missing), None)": the key that
\* held v before keeps its forward entry.
ApplyPairKeepsOldKey(_fwd, _inv, k, v) ==
    LET inv1 == Pop(_inv, Get(_fwd, k))
    IN  [_fwd |-> Put(_fwd, k, v), _inv |-> Put(inv1, v, k)]

\* ApplyPair without "_inv.pop(_fwd.pop(k, _missing), None)": the value that
\* k held before keeps its inverse entry.
ApplyPairKeepsOldValue(_fwd, _inv, k, v) ==
    LET fwd2 == Pop(Pop(_fwd, k), Get(_inv, v))
    IN  [_fwd |-> Put(fwd2, k, v), _inv |-> Put(_inv, v, k)]

\* _update, the body of its loop: one (k, v) written to both dictionaries.
ApplyPair(_fwd, _inv, k, v) ==
    LET fwd1 == Pop(_fwd, k)                  \* _fwd.pop(k, _missing)
        inv1 == Pop(_inv, Get(_fwd, k))        \* _inv.pop(<that>, None)
        inv2 == Pop(inv1, v)                 \* _inv.pop(v, _missing)
        fwd2 == Pop(fwd1, Get(inv1, v))      \* _fwd.pop(<that>, None)
    IN  [_fwd |-> Put(fwd2, k, v), _inv |-> Put(inv2, v, k)]

RECURSIVE ApplyAll(_, _, _)
\* for (k, v) in update: ... over a realized tuple
ApplyAll(_fwd, _inv, s) ==
    IF Len(s) = 0 THEN [_fwd |-> _fwd, _inv |-> _inv]
    ELSE LET r == ApplyPair(_fwd, _inv, s[1][1], s[1][2])
         IN  ApplyAll(r._fwd, r._inv, Tail(s))

(* ----------------- _dedup: against the existing items ----------------- *)

\* What a generator does with one item: yield it, skip it (continue), or raise.
Yield == [act |-> "yield", err |-> NoErr]

Skip == [act |-> "skip", err |-> NoErr]

Raise(e) == [act |-> "raise", err |-> e]

\* _dedup with "continue" in place of "skip = True" after the key check: a
\* pair whose key is ignored never reaches the value check.
_dedup_IgnoredKeySkipsValue(_fwd, _inv, on_dup_key, on_dup_val, k, v) ==
    LET oldv  == Get(_fwd, k)
        kcol  == oldv # _missing
        skipk == oldv = v \/ (kcol /\ on_dup_key = IGNORE)
        oldk  == Get(_inv, v)
        vcol  == oldk # _missing
        skipv == oldk = k \/ (vcol /\ on_dup_val = IGNORE)
    IN  IF skipk THEN Skip
        ELSE IF kcol /\ on_dup_key = RAISE THEN Raise(KeyExistsError(k, oldv))
        ELSE IF ~skipv /\ vcol /\ on_dup_val = RAISE THEN Raise(ValueExistsError(oldk, v))
        ELSE IF skipv THEN Skip
        ELSE Yield

\* _dedup without the tests "oldv == v" and "oldk == k": a pair already in the
\* mapping is treated as a collision.
_dedup_NoExactMatch(_fwd, _inv, on_dup_key, on_dup_val, k, v) ==
    LET oldv  == Get(_fwd, k)
        kcol  == oldv # _missing
        skipk == kcol /\ on_dup_key = IGNORE
        oldk  == Get(_inv, v)
        vcol  == oldk # _missing
        skipv == vcol /\ on_dup_val = IGNORE
    IN  IF ~skipk /\ kcol /\ on_dup_key = RAISE THEN Raise(KeyExistsError(k, oldv))
        ELSE IF ~skipv /\ vcol /\ on_dup_val = RAISE THEN Raise(ValueExistsError(oldk, v))
        ELSE IF skipk \/ skipv THEN Skip
        ELSE Yield

\* _dedup with "elif kcol:" and "elif vcol:" in place of "elif kcol and
\* on_dup_key_raise:" and "elif vcol and on_dup_val_raise:": a collision that
\* is not ignored raises under OVERWRITE too.
_dedup_RaisesUnlessIgnored(_fwd, _inv, on_dup_key, on_dup_val, k, v) ==
    LET oldv  == Get(_fwd, k)
        kcol  == oldv # _missing
        skipk == oldv = v \/ (kcol /\ on_dup_key = IGNORE)
        oldk  == Get(_inv, v)
        vcol  == oldk # _missing
        skipv == oldk = k \/ (vcol /\ on_dup_val = IGNORE)
    IN  IF ~skipk /\ kcol THEN Raise(KeyExistsError(k, oldv))
        ELSE IF ~skipv /\ vcol THEN Raise(ValueExistsError(oldk, v))
        ELSE IF skipk \/ skipv THEN Skip
        ELSE Yield

\* _dedup with the value check before the key check.
_dedup_ValueCheckFirst(_fwd, _inv, on_dup_key, on_dup_val, k, v) ==
    LET oldv  == Get(_fwd, k)
        kcol  == oldv # _missing
        skipk == oldv = v \/ (kcol /\ on_dup_key = IGNORE)
        oldk  == Get(_inv, v)
        vcol  == oldk # _missing
        skipv == oldk = k \/ (vcol /\ on_dup_val = IGNORE)
    IN  IF ~skipv /\ vcol /\ on_dup_val = RAISE THEN Raise(ValueExistsError(oldk, v))
        ELSE IF ~skipk /\ kcol /\ on_dup_key = RAISE THEN Raise(KeyExistsError(k, oldv))
        ELSE IF skipk \/ skipv THEN Skip
        ELSE Yield

\* _dedup without "(kcol and on_dup_key_ignore)" and "(vcol and
\* on_dup_val_ignore)": a colliding pair is yielded under IGNORE.
_dedup_IgnoreYields(_fwd, _inv, on_dup_key, on_dup_val, k, v) ==
    LET oldv  == Get(_fwd, k)
        kcol  == oldv # _missing
        skipk == oldv = v
        oldk  == Get(_inv, v)
        vcol  == oldk # _missing
        skipv == oldk = k
    IN  IF ~skipk /\ kcol /\ on_dup_key = RAISE THEN Raise(KeyExistsError(k, oldv))
        ELSE IF ~skipv /\ vcol /\ on_dup_val = RAISE THEN Raise(ValueExistsError(oldk, v))
        ELSE IF skipk \/ skipv THEN Skip
        ELSE Yield

\* BidirectionalMapping._dedup, the body of its loop for one (k, v).
_dedup(_fwd, _inv, on_dup_key, on_dup_val, k, v) ==
    LET oldv  == Get(_fwd, k)
        kcol  == oldv # _missing
        skipk == oldv = v \/ (kcol /\ on_dup_key = IGNORE)
        oldk  == Get(_inv, v)
        vcol  == oldk # _missing
        skipv == oldk = k \/ (vcol /\ on_dup_val = IGNORE)
    IN  IF ~skipk /\ kcol /\ on_dup_key = RAISE THEN Raise(KeyExistsError(k, oldv))
        ELSE IF ~skipv /\ vcol /\ on_dup_val = RAISE THEN Raise(ValueExistsError(oldk, v))
        ELSE IF skipk \/ skipv THEN Skip
        ELSE Yield

(* ------------------ _dedup_in: within the input ----------------------- *)

\* The generator's local dictionaries. hasargmap: argmap is not None.
GenState(argmap, arginv, hasargmap) ==
    [argmap |-> argmap, arginv |-> arginv, kwinv |-> EmptyDict, hasargmap |-> hasargmap]

\* _dedup_in before its first item: argmap and arginv as the form of arg sets them.
GenInit(arg) ==
    IF Len(arg.items) = 0 THEN GenState(EmptyDict, EmptyDict, FALSE)     \* if arg: is false
    ELSE IF arg.form = "bimap"
         THEN GenState(DictOf(arg.items), DictOf(Swapped(arg.items)), TRUE)
    ELSE IF arg.form = "map" THEN GenState(DictOf(arg.items), EmptyDict, TRUE)
    ELSE GenState(EmptyDict, EmptyDict, TRUE)

\* _dedup_in_arg without "if on_dup_key_raise: raise KeyNotUniqueError(k)": a
\* repeated key is overwritten under RAISE too.
_dedup_in_arg_NoKeyRaise(gs, on_dup_key, on_dup_val, argismap, k, v) ==
    LET pv  == Get(gs.argmap, k)
        gs1 == IF argismap THEN gs ELSE [gs EXCEPT !.argmap = Put(gs.argmap, k, v)]
        pk  == Get(gs.arginv, v)
    IN  IF ~argismap /\ pv = v THEN [gs |-> gs, res |-> Skip]
        ELSE IF ~argismap /\ pv # _missing /\ on_dup_key = IGNORE
             THEN [gs |-> gs, res |-> Skip]
        ELSE IF pk = k THEN [gs |-> gs1, res |-> Skip]
        ELSE IF pk # _missing /\ on_dup_val = RAISE
             THEN [gs |-> gs1, res |-> Raise(ValueNotUniqueError(v))]
        ELSE IF pk # _missing /\ on_dup_val = IGNORE THEN [gs |-> gs1, res |-> Skip]
        ELSE [gs |-> [gs1 EXCEPT !.arginv = Put(gs1.arginv, v, k)], res |-> Yield]

\* _dedup_in_arg without "if pv == v: continue" and "if pk == k: continue":
\* the repeated occurrence of a pair counts as a duplicate key.
_dedup_in_arg_NoExactMatch(gs, on_dup_key, on_dup_val, argismap, k, v) ==
    LET pv  == Get(gs.argmap, k)
        gs1 == IF argismap THEN gs ELSE [gs EXCEPT !.argmap = Put(gs.argmap, k, v)]
        pk  == Get(gs.arginv, v)
    IN  IF ~argismap /\ pv # _missing /\ on_dup_key = RAISE
             THEN [gs |-> gs, res |-> Raise(KeyNotUniqueError(k))]
        ELSE IF ~argismap /\ pv # _missing /\ on_dup_key = IGNORE
             THEN [gs |-> gs, res |-> Skip]
        ELSE IF pk # _missing /\ on_dup_val = RAISE
             THEN [gs |-> gs1, res |-> Raise(ValueNotUniqueError(v))]
        ELSE IF pk # _missing /\ on_dup_val = IGNORE THEN [gs |-> gs1, res |-> Skip]
        ELSE [gs |-> [gs1 EXCEPT !.arginv = Put(gs1.arginv, v, k)], res |-> Yield]

\* _dedup_in, the loop over a positional argument that is no bidirectional
\* mapping, for one (k, v): [gs, res].
_dedup_in_arg(gs, on_dup_key, on_dup_val, argismap, k, v) ==
    LET pv  == Get(gs.argmap, k)
        gs1 == IF argismap THEN gs ELSE [gs EXCEPT !.argmap = Put(gs.argmap, k, v)]
        pk  == Get(gs.arginv, v)
    IN  IF ~argismap /\ pv = v THEN [gs |-> gs, res |-> Skip]
        ELSE IF ~argismap /\ pv # _missing /\ on_dup_key = RAISE
             THEN [gs |-> gs, res |-> Raise(KeyNotUniqueError(k))]
        ELSE IF ~argismap /\ pv # _missing /\ on_dup_key = IGNORE
             THEN [gs |-> gs, res |-> Skip]
        ELSE IF pk = k THEN [gs |-> gs1, res |-> Skip]
        ELSE IF pk # _missing /\ on_dup_val = RAISE
             THEN [gs |-> gs1, res |-> Raise(ValueNotUniqueError(v))]
        ELSE IF pk # _missing /\ on_dup_val = IGNORE THEN [gs |-> gs1, res |-> Skip]
        ELSE [gs |-> [gs1 EXCEPT !.arginv = Put(gs1.arginv, v, k)], res |-> Yield]

\* _dedup_in, the loop over the named pairs, for one (k, v): [gs, res].
\* "if argmap:" holds when the positional argument gave a non-empty argmap.
_dedup_in_kw(gs, on_dup_key, on_dup_val, k, v) ==
    LET chk  == gs.hasargmap /\ gs.argmap # EmptyDict
        argv == Get(gs.argmap, k)
        argk == Get(gs.arginv, v)
        pk   == Get(gs.kwinv, v)
    IN  IF chk /\ argv = v THEN [gs |-> gs, res |-> Skip]
        ELSE IF chk /\ argv # _missing /\ on_dup_key = RAISE
             THEN [gs |-> gs, res |-> Raise(KeyNotUniqueError(k))]
        ELSE IF chk /\ argv # _missing /\ on_dup_key = IGNORE THEN [gs |-> gs, res |-> Skip]
        ELSE IF chk /\ argk = k THEN [gs |-> gs, res |-> Skip]
        ELSE IF chk /\ argk # _missing /\ on_dup_val = RAISE
             THEN [gs |-> gs, res |-> Raise(ValueNotUniqueError(v))]
        ELSE IF chk /\ argk # _missing /\ on_dup_val = IGNORE THEN [gs |-> gs, res |-> Skip]
        ELSE IF pk = k THEN [gs |-> gs, res |-> Skip]
        ELSE IF pk # _missing /\ on_dup_val = RAISE
             THEN [gs |-> gs, res |-> Raise(ValueNotUniqueError(v))]
        ELSE IF pk # _missing /\ on_dup_val = IGNORE THEN [gs |-> gs, res |-> Skip]
        ELSE [gs |-> [gs EXCEPT !.kwinv = Put(gs.kwinv, k, v)], res |-> Yield]   \* kwinv[k] = v

\* _dedup_in for the i-th item of the input (positional items, then named pairs).
_dedup_in(gs, on_dup_key, on_dup_val, arg, kw, i) ==
    LET n == Len(arg.items) IN
    IF i > n
    THEN _dedup_in_kw(gs, on_dup_key, on_dup_val, kw[i - n][1], kw[i - n][2])
    ELSE IF arg.form = "bimap" THEN [gs |-> gs, res |-> Yield]
    ELSE _dedup_in_arg(gs, on_dup_key, on_dup_val, arg.form = "map",
                    arg.items[i][1], arg.items[i][2])

(* ------------------------------ _update ------------------------------- *)

\* A call's arguments: the duplication behaviors, atomic, the positional
\* argument (form "none": no positional argument; "seq": a list of pairs;
\* "map": a Mapping that is no bidirectional mapping; "bimap": a
\* BidirectionalMapping) and the named pairs, both in iteration order.
Call(on_dup_key, on_dup_val, atomic, arg, kw) ==
    [on_dup_key |-> on_dup_key, on_dup_val |-> on_dup_val, atomic |-> atomic,
     arg |-> arg, kw |-> kw]

\* pairs(arg, **kw) of bidict.util: the items of arg, then the named pairs.
pairs(arg, kw) == arg.items \o kw

\* skip_dedup_update of _update. Every form of arg modelled here (a list, a
\* Mapping, a bidirectional mapping, or {} when there is none) has __len__.
skip_dedup_update(c) ==
    LET overwrite_kv   == c.on_dup_key = OVERWRITE /\ c.on_dup_val = OVERWRITE
        update_len_1   == Len(c.arg.items) + Len(c.kw) = 1
        only_bimap_arg == c.arg.form = "bimap" /\ Len(c.kw) = 0
    IN  overwrite_kv \/ update_len_1 \/ only_bimap_arg

\* AppliesEarly without "if atomic: update = tuple(update)": the pairs are
\* always applied as the generators yield them.
AppliesEarlyAlways(atomic) == TRUE

\* "if atomic: update = tuple(update)": unless atomic, a pair is applied as
\* soon as the generators yield it.
AppliesEarly(atomic) == ~atomic

RECURSIVE Pull(_, _, _, _, _)
\* _update from the i-th item of the input on: the item is pulled through
\* _dedup_in (unless skipin) and _dedup (if dedupself), then applied or kept.
\* st: the dictionaries, the state of _dedup_in, the realized tuple, the error.
Pull(st, i, c, skipin, dedupself) ==
    IF i > Len(pairs(c.arg, c.kw)) THEN st
    ELSE
      LET k  == pairs(c.arg, c.kw)[i][1]
          v  == pairs(c.arg, c.kw)[i][2]
          r1 == IF skipin THEN [gs |-> st.gs, res |-> Yield]
                ELSE _dedup_in(st.gs, c.on_dup_key, c.on_dup_val, c.arg, c.kw, i)
          r2 == IF dedupself THEN _dedup(st._fwd, st._inv, c.on_dup_key, c.on_dup_val, k, v)
                ELSE Yield
          a  == ApplyPair(st._fwd, st._inv, k, v)
          s1 == [st EXCEPT !.gs = r1.gs]
      IN  IF r1.res.act = "raise" THEN [s1 EXCEPT !.err = r1.res.err]
          ELSE IF r1.res.act = "skip" THEN Pull(s1, i + 1, c, skipin, dedupself)
          ELSE IF r2.act = "raise" THEN [s1 EXCEPT !.err = r2.err]
          ELSE IF r2.act = "skip" THEN Pull(s1, i + 1, c, skipin, dedupself)
          ELSE IF AppliesEarly(c.atomic)
               THEN Pull([s1 EXCEPT !._fwd = a._fwd, !._inv = a._inv], i + 1, c, skipin, dedupself)
          ELSE Pull([s1 EXCEPT !.out = Append(st.out, <<k, v>>)], i + 1, c, skipin, dedupself)

\* BidirectionalMapping._update on the dictionaries _fwd and _inv of self:
\* [_fwd, _inv, err], the dictionaries as the call leaves them and what it raised.
_update(_fwd, _inv, c) ==
    IF c.arg.form = "none" /\ Len(c.kw) = 0
    THEN [_fwd |-> _fwd, _inv |-> _inv, err |-> NoErr]            \* if not args and not kw: return
    ELSE
      LET st == Pull([_fwd |-> _fwd, _inv |-> _inv, gs |-> GenInit(c.arg),
                      out |-> << >>, err |-> NoErr],
                     1, c, skip_dedup_update(c), _fwd # EmptyDict)   \* "if self:"
          r  == ApplyAll(st._fwd, st._inv, st.out)
      IN  IF st.err # NoErr THEN [_fwd |-> st._fwd, _inv |-> st._inv, err |-> st.err]
          ELSE [_fwd |-> r._fwd, _inv |-> r._inv, err |-> NoErr]

(* ---------------------------- the objects ------------------------------ *)

\* NewInverse with "inv._fwd = self._fwd; inv._inv = self._inv": the roles
\* are not swapped.
NewInverseUnswapped(self, selfid) == [_fwd |-> self._fwd, _inv |-> self._inv, inv |-> selfid]

\* The object __init__ links to self as self.inv.
NewInverse(self, selfid) == [_fwd |-> self._inv, _inv |-> self._fwd, inv |-> selfid]

\* copy with "copy._fwd = self._fwd", without .copy(): the copy shares the
\* forward dictionary of the original.
copy_SharedFwd(ds, os, s) ==
    LET nd   == Len(ds)
        no   == Len(os)
        cp   == [_fwd |-> os[s]._fwd, _inv |-> nd + 2, inv |-> no + 2]
        cinv == [_fwd |-> cp._inv, _inv |-> cp._fwd, inv |-> no + 1]
    IN  [dicts |-> ds \o <<ds[os[s]._fwd], ds[os[s]._inv]>>,
         objs  |-> os \o <<cp, cinv>>]

\* BidirectionalMapping.copy of object s on the heap (ds, os): the heap with
\* the copy and the copy's inverse added.
copy(ds, os, s) ==
    LET nd   == Len(ds)
        no   == Len(os)
        cp   == [_fwd |-> nd + 1, _inv |-> nd + 2, inv |-> no + 2]
        cinv == [_fwd |-> cp._inv, _inv |-> cp._fwd, inv |-> no + 1]
    IN  [dicts |-> ds \o <<ds[os[s]._fwd], ds[os[s]._inv]>>,
         objs  |-> os \o <<cp, cinv>>]

(* ------------------------------ inputs -------------------------------- *)

Pairs == Elems \X Elems

SeqsUpTo(S, n) == UNION {[1..m -> S] : m \in 0..n}

\* The items of a Mapping: no key twice.
KeyDistinct(s) == \A i, j \in 1..Len(s) : i # j => s[i][1] # s[j][1]

\* The items of a bidirectional mapping: no key and no value twice.
ValDistinct(s) == \A i, j \in 1..Len(s) : i # j => s[i][2] # s[j][2]

NoArg == [form |-> "none", items |-> << >>]

Args ==
    {NoArg}
    \cup {[form |-> "seq", items |-> s] : s \in SeqsUpTo(Pairs, MaxLen)}
    \cup {[form |-> "map", items |-> s] : s \in {t \in SeqsUpTo(Pairs, MaxLen) : KeyDistinct(t)}}
    \cup {[form |-> "bimap", items |-> s] :
            s \in {t \in SeqsUpTo(Pairs, MaxLen) : KeyDistinct(t) /\ ValDistinct(t)}}

Kws == {t \in SeqsUpTo(Pairs, MaxLen) : KeyDistinct(t)}

Inputs == {x \in Args \X Kws : Len(x[1].items) + Len(x[2]) <= MaxLen}

(* ----------------------- frozenbidict: __hash__ ------------------------ *)

\* _HASH_NITEMS_MAX = None: islice(..., None) takes every item.
None == -1

\* No attribute _hashval yet.
NoHashval == -1

\* _marker(self.__class__.__name__) of frozenbidict: one object per class
\* name, equal to no key and no value.
_marker == NumElems + 1

\* hash of a 2-tuple: positional, so (1, 2) and (2, 1) differ.
TupleHash(t) == (t[1] * (NumElems + 2) + t[2]) % (2 ^ HashBits)

RECURSIVE FrozensetHash(_)
\* hash(frozenset): a commutative combination of the elements' hashes.
FrozensetHash(S) ==
    IF S = {} THEN 0
    ELSE LET x == CHOOSE y \in S : TRUE
         IN  (TupleHash(x) + FrozensetHash(S \ {x})) % (2 ^ HashBits)

\* islice(items, n)
islice(items, n) ==
    IF n = None \/ n >= Len(items) THEN items ELSE SubSeq(items, 1, n)

\* chain((marker,), items), as frozenset(...) collects it.
chain(marker, items) == {marker} \cup {items[i] : i \in 1..Len(items)}

\* frozenbidict._compute_hash
_compute_hash(items) == FrozensetHash(items)

\* FrozenBidictBase.__hash__ of an instance without _hashval whose items
\* iterate in the order items.
__hash__(items, _HASH_NITEMS_MAX) ==
    LET marker == <<_marker, _marker>>
    IN  _compute_hash(chain(marker, islice(items, _HASH_NITEMS_MAX)))

\* The instances of frozenbidict and the class attribute they share. An
\* instance: its items in iteration order, _hashval, the values its first
\* and its latest hash() call returned, and the number of its hash() calls.
NoFrozen == [_HASH_NITEMS_MAX |-> None, insts |-> << >>]

\* The settings of _HASH_NITEMS_MAX: None, or a number of items.
NItemsMax == {None} \cup 0..NumElems

\* The item sequences of a bidirectional mapping, in any iteration order.
FrozenItems == {t \in SeqsUpTo(Pairs, NumElems) : KeyDistinct(t) /\ ValDistinct(t)}

(* --------------------------- the state machine ------------------------- *)

NoCall == Call(OVERWRITE, RAISE, TRUE, NoArg, << >>)

\* What the last operation was: its arguments (c), the object it was called
\* on (self, 0 if none), the heap before it (pre), the two dictionaries of
\* self before (fwd0, inv0) and after it (fwd1, inv1), and what it raised.
Last(op, self, c, pre, fwd0, inv0, r) ==
    [op |-> op, self |-> self, c |-> c, pre |-> pre,
     fwd0 |-> fwd0, inv0 |-> inv0, fwd1 |-> r._fwd, inv1 |-> r._inv, err |-> r.err]

NoLast ==
    Last("none", 0, NoCall, << >>, EmptyDict, EmptyDict,
         [_fwd |-> EmptyDict, _inv |-> EmptyDict, err |-> NoErr])

Init ==
    /\ dicts = << >>
    /\ objs = << >>
    /\ last = NoLast
    /\ frozen = NoFrozen

\* BidirectionalMapping.__init__ of a class whose _on_dup_key and _on_dup_val
\* are on_dup_key and on_dup_val. The model follows one constructed mapping,
\* its inverse view and their copies.
__init__(on_dup_key, on_dup_val, arg, kw) ==
    LET c    == Call(on_dup_key, on_dup_val, TRUE, arg, kw)
        r    == _update(EmptyDict, EmptyDict, c)
        self == [_fwd |-> 1, _inv |-> 2, inv |-> 2]
    IN  /\ Len(objs) = 0
        /\ last' = Last("init", IF r.err = NoErr THEN 1 ELSE 0, c, dicts,
                        EmptyDict, EmptyDict, r)
        /\ IF r.err = NoErr
           THEN /\ dicts' = <<r._fwd, r._inv>>
                /\ objs' = <<self, NewInverse(self, 1)>>
           ELSE UNCHANGED <<dicts, objs>>
        /\ UNCHANGED frozen

\* _update called on object t (a mapping or an inverse view).
UpdateCall(t, c) ==
    LET o == objs[t]
        r == _update(dicts[o._fwd], dicts[o._inv], c)
    IN  /\ last' = Last("update", t, c, dicts, dicts[o._fwd], dicts[o._inv], r)
        /\ dicts' = [d \in DOMAIN dicts |->
                        IF d = o._inv THEN r._inv ELSE IF d = o._fwd THEN r._fwd ELSE dicts[d]]
        /\ UNCHANGED <<objs, frozen>>

\* copy() called on object s.
CopyCall(s) ==
    LET h == copy(dicts, objs, s)
    IN  /\ Len(objs) + 2 <= 2 * MaxMaps
        /\ dicts' = h.dicts
        /\ objs' = h.objs
        /\ last' = Last("copy", s, NoCall, dicts, dicts[objs[s]._fwd], dicts[objs[s]._inv],
                        [_fwd |-> dicts[objs[s]._fwd], _inv |-> dicts[objs[s]._inv], err |-> NoErr])
        /\ UNCHANGED frozen

\* The call has returned or raised: the caller goes on to its next call.
Return ==
    /\ last.op # "none"
    /\ last' = NoLast
    /\ UNCHANGED <<dicts, objs, frozen>>

\* No call is under way: the caller may make its next one.
Ready == last.op = "none"

\* One mapping and its inverse view, under every input up to MaxLen.
Next ==
    \/ /\ Ready
       /\ \E k \in DuplicationBehavior, v \in DuplicationBehavior, x \in Inputs :
             __init__(k, v, x[1], x[2])
    \/ /\ Ready
       /\ \E t \in DOMAIN objs, k \in DuplicationBehavior, v \in DuplicationBehavior,
             atomic \in BOOLEAN, x \in Inputs :
             UpdateCall(t, Call(k, v, atomic, x[1], x[2]))
    \/ Return

Spec == Init /\ [][Next]_vars

\* The inputs of the specification with copies.
CopyInputs == {x \in Inputs : Len(x[1].items) + Len(x[2]) <= MaxCopyLen}

\* Up to MaxMaps mappings made by copy(), under every input up to MaxCopyLen.
NextCopy ==
    \/ /\ Ready
       /\ \E k \in DuplicationBehavior, v \in DuplicationBehavior, x \in CopyInputs :
             __init__(k, v, x[1], x[2])
    \/ /\ Ready
       /\ \E t \in DOMAIN objs, k \in DuplicationBehavior, v \in DuplicationBehavior,
             atomic \in BOOLEAN, x \in CopyInputs :
             UpdateCall(t, Call(k, v, atomic, x[1], x[2]))
    \/ /\ Ready
       /\ \E s \in DOMAIN objs : CopyCall(s)
    \/ Return

SpecCopy == Init /\ [][NextCopy]_vars

\* A subclass of frozenbidict is defined with _HASH_NITEMS_MAX = n; no
\* instance exists yet.
InitHash ==
    /\ dicts = << >>
    /\ objs = << >>
    /\ last = NoLast
    /\ frozen \in {[NoFrozen EXCEPT !._HASH_NITEMS_MAX = n] : n \in NItemsMax}

\* frozenbidict(...): a new instance whose items iterate in the order items.
FrozenInit(items) ==
    /\ Len(frozen.insts) < MaxFrozen
    /\ frozen' = [frozen EXCEPT !.insts =
                     Append(@, [items |-> items, _hashval |-> NoHashval,
                                first |-> NoHashval, ret |-> NoHashval, calls |-> 0])]
    /\ UNCHANGED <<dicts, objs, last>>

\* hash(x) of instance i: FrozenBidictBase.__hash__.
HashCall(i) ==
    LET x  == frozen.insts[i]
        hv == IF x._hashval # NoHashval THEN x._hashval        \* hasattr(self, '_hashval')
              ELSE __hash__(x.items, frozen._HASH_NITEMS_MAX)
    IN  /\ x.calls < MaxHashCalls
        /\ frozen' = [frozen EXCEPT !.insts[i] =
                         [x EXCEPT !._hashval = hv,
                                   !.first = IF x.calls = 0 THEN hv ELSE x.first,
                                   !.ret = hv,
                                   !.calls = x.calls + 1]]
        /\ UNCHANGED <<dicts, objs, last>>

NextHash ==
    \/ \E items \in FrozenItems : FrozenInit(items)
    \/ \E i \in DOMAIN frozen.insts : HashCall(i)

SpecHash == InitHash /\ [][NextHash]_vars

(* ------------------------------ claims -------------------------------- *)

\* The input of the last call, positional items then named pairs.
In == pairs(last.c.arg, last.c.kw)

\* The last call left the dictionaries of self and the whole heap as they were.
NothingApplied == last.fwd1 = last.fwd0 /\ last.inv1 = last.inv0 /\ dicts = last.pre

\* (k, v) collides with a stored key: k is stored with another value.
KeyCollides(_fwd, k, v) == Get(_fwd, k) \notin {_missing, v}

\* (k, v) collides with a stored value: v is stored under another key.
ValCollides(_inv, k, v) == Get(_inv, v) \notin {_missing, k}

SwappedItems(d) == {<<p[2], p[1]>> : p \in Items(d)}

\* f and g are exact mutual inverses.
MutualInverses(f, g) ==
    /\ \A k \in Elems, v \in Elems :
          (k \in DOMAIN f /\ f[k] = v) <=> (v \in DOMAIN g /\ g[v] = k)
    /\ Cardinality(DOMAIN f) = Cardinality(DOMAIN g)

\* C1: after every construction and every _update call (any policies, atomic
\* or not, through a mapping or its inverse view, returned or raised) the two
\* dictionaries of every object are exact mutual inverses of equal length.
C1_MutualInverses ==
    /\ \A o \in DOMAIN objs : MutualInverses(dicts[objs[o]._fwd], dicts[objs[o]._inv])
    /\ MutualInverses(last.fwd1, last.inv1)

\* A non-atomic update through the inverse view raised after it had applied
\* an earlier pair of its batch.
C1_Witness ==
    /\ last.op = "update"
    /\ last.self = objs[1].inv
    /\ ~last.c.atomic
    /\ IsUniquenessError(last.err)
    /\ last.fwd1 # last.fwd0
    /\ dicts[objs[last.self]._fwd] = last.fwd1

\* C2: an atomic update (or construction) that raises a uniqueness error
\* leaves both dictionaries exactly as they were before the call.
C2_BatchAtomicity ==
    (last.op \in {"init", "update"} /\ last.c.atomic /\ IsUniquenessError(last.err))
        => NothingApplied

\* An atomic update raised on a later pair of a batch whose earlier pairs the
\* same call without atomic would have applied.
C2_Witness ==
    /\ last.op = "update"
    /\ last.c.atomic
    /\ IsUniquenessError(last.err)
    /\ _update(last.fwd0, last.inv0, [last.c EXCEPT !.atomic = FALSE])._fwd # last.fwd0

\* C3: every object and its inverse view are linked both ways and share the
\* two dictionaries with roles swapped, so the items of the one are the
\* swapped items of the other, and what an update through an object left in
\* its dictionaries is what the other view holds right after the call.
C3_InverseView ==
    /\ \A o \in DOMAIN objs :
          LET i == objs[o].inv IN
          /\ i \in DOMAIN objs /\ i # o
          /\ objs[i].inv = o
          /\ objs[i]._fwd = objs[o]._inv /\ objs[i]._inv = objs[o]._fwd
          /\ Items(dicts[objs[i]._fwd]) = SwappedItems(dicts[objs[o]._fwd])
    /\ last.op = "update" =>
          /\ dicts[objs[last.self]._fwd] = last.fwd1
          /\ Items(dicts[objs[objs[last.self].inv]._fwd]) = SwappedItems(last.fwd1)

\* An update through the inverse view changed a mapping that is not its own
\* inverse.
C3_Witness ==
    /\ last.op = "update"
    /\ last.self = objs[1].inv
    /\ last.err = NoErr
    /\ last.fwd1 # last.fwd0
    /\ Items(dicts[objs[1]._fwd]) # SwappedItems(dicts[objs[1]._fwd])
    /\ Items(dicts[objs[1]._fwd]) = SwappedItems(last.fwd1)

\* What C4 says of the pair (k, v) of the last update.
C4_RaisesFor(k, v) ==
    /\ (KeyCollides(last.fwd0, k, v) /\ last.c.on_dup_key = RAISE)
          => (last.err = KeyExistsError(k, Get(last.fwd0, k)) /\ NothingApplied)
    /\ (ValCollides(last.inv0, k, v) /\ last.c.on_dup_val = RAISE
           /\ ~(KeyCollides(last.fwd0, k, v) /\ last.c.on_dup_key = RAISE))
          => (last.err = ValueExistsError(Get(last.inv0, v), v) /\ NothingApplied)

\* C4 as stated, for atomic updates: for any pair of the update whose value
\* is stored under another key (on_dup_val RAISE, the key check not raising)
\* the update raises ValueExists with (k0, v); for any pair whose key is
\* stored with another value (on_dup_key RAISE) it raises KeyExists with
\* (k, v0); the mapping is unchanged.
C4_AnyPair ==
    (last.op = "update" /\ last.c.atomic)
        => \A i \in 1..Len(In) : C4_RaisesFor(In[i][1], In[i][2])

\* C4 amended: the same, for the first pair of the update's input.
C4_FirstPair ==
    (last.op = "update" /\ Len(In) >= 1) => C4_RaisesFor(In[1][1], In[1][2])

\* The first pair of a longer batch collides on its key (ignored) and on its
\* value (raised): the update raised ValueExists.
C4_Witness ==
    /\ last.op = "update"
    /\ Len(In) >= 2
    /\ last.c.on_dup_key = IGNORE /\ last.c.on_dup_val = RAISE
    /\ KeyCollides(last.fwd0, In[1][1], In[1][2])
    /\ ValCollides(last.inv0, In[1][1], In[1][2])
    /\ last.err.type = "ValueExists"

\* C5, for the input form "named pairs only" and an atomic call: if two named
\* pairs have different keys and the same value and on_dup_val is RAISE (and
\* no key error is raised), the call raises ValueNotUnique and applies nothing.
C5_NamedPairs ==
    (/\ last.op \in {"init", "update"}
     /\ last.c.atomic
     /\ last.c.arg.form = "none"
     /\ \E i, j \in 1..Len(last.c.kw) :
           last.c.kw[i][1] # last.c.kw[j][1] /\ last.c.kw[i][2] = last.c.kw[j][2]
     /\ last.c.on_dup_val = RAISE
     /\ ~IsKeyNotUnique(last.err))
        => (IsValueNotUnique(last.err) /\ NothingApplied)

\* C6: a mapping created from a sequence of pairs under key OVERWRITE and
\* value RAISE, no two pairs with different keys sharing a value, is created
\* and maps every key of the sequence to the value of the last pair with it.
C6_LaterPairWins ==
    (/\ last.op = "init"
     /\ last.c.arg.form = "seq" /\ Len(last.c.kw) = 0
     /\ last.c.on_dup_key = OVERWRITE /\ last.c.on_dup_val = RAISE
     /\ \A i, j \in 1..Len(In) : In[i][1] # In[j][1] => In[i][2] # In[j][2])
        => /\ last.err = NoErr
           /\ \A i \in 1..Len(In) : Get(last.fwd1, In[i][1]) = DictOf(In)[In[i][1]]

\* C7: an update with the single pair (k, v) already in the mapping raises
\* nothing and changes nothing, under every pair of policies.
C7_Idempotent ==
    (last.op = "update" /\ Len(In) = 1 /\ Get(last.fwd0, In[1][1]) = In[1][2])
        => (last.err = NoErr /\ NothingApplied)

\* A pair already present was applied again under RAISE for keys and values.
C7_Witness ==
    /\ last.op = "update"
    /\ Len(In) = 1
    /\ Get(last.fwd0, In[1][1]) = In[1][2]
    /\ last.c.on_dup_key = RAISE /\ last.c.on_dup_val = RAISE
    /\ Cardinality(DOMAIN last.fwd0) > 1
    /\ last.err = NoErr

\* C8: an update with the single pair (k, v) under OVERWRITE for keys and
\* values succeeds; the items afterwards are the items before without the
\* one keyed k and the one valued v, plus (k, v), in both dictionaries.
C8_OverwriteDisplaces ==
    (/\ last.op = "update"
     /\ Len(In) = 1
     /\ last.c.on_dup_key = OVERWRITE /\ last.c.on_dup_val = OVERWRITE)
        => /\ last.err = NoErr
           /\ Items(last.fwd1) =
                 {p \in Items(last.fwd0) : p[1] # In[1][1] /\ p[2] # In[1][2]} \cup {In[1]}
           /\ Items(last.inv1) =
                 {p \in Items(last.inv0) : p[2] # In[1][1] /\ p[1] # In[1][2]}
                    \cup {<<In[1][2], In[1][1]>>}
           /\ dicts[objs[last.self]._fwd] = last.fwd1
           /\ dicts[objs[last.self]._inv] = last.inv1

\* The pair displaced two different entries, one by its key and one by its value.
C8_Witness ==
    /\ last.op = "update"
    /\ Len(In) = 1
    /\ last.c.on_dup_key = OVERWRITE /\ last.c.on_dup_val = OVERWRITE
    /\ KeyCollides(last.fwd0, In[1][1], In[1][2])
    /\ ValCollides(last.inv0, In[1][1], In[1][2])
    /\ Cardinality(DOMAIN last.fwd1) < Cardinality(DOMAIN last.fwd0)

\* C9: copy() returns a mapping equal to the original, with dictionaries of
\* its own and an inverse view linked to it both ways that holds the swapped
\* items; the original is untouched by copy(), and an update through any
\* object changes the dictionaries of no object but it and its inverse view
\* (an update of the copy leaves the original unchanged, and vice versa).
C9_CopyIndependent ==
    /\ last.op = "copy" =>
          LET s    == last.self
              cp   == Len(objs) - 1
              cinv == objs[cp].inv
          IN  /\ dicts[objs[cp]._fwd] = dicts[objs[s]._fwd]
              /\ cinv # cp /\ objs[cinv].inv = cp
              /\ objs[cinv]._fwd = objs[cp]._inv /\ objs[cinv]._inv = objs[cp]._fwd
              /\ Items(dicts[objs[cinv]._fwd]) = SwappedItems(dicts[objs[cp]._fwd])
              /\ \A o \in DOMAIN objs : o \notin {cp, cinv} =>
                    {objs[o]._fwd, objs[o]._inv} \cap {objs[cp]._fwd, objs[cp]._inv} = {}
              /\ \A d \in DOMAIN last.pre : dicts[d] = last.pre[d]
    /\ last.op = "update" =>
          \A o \in DOMAIN objs : o \notin {last.self, objs[last.self].inv} =>
              /\ dicts[objs[o]._fwd] = last.pre[objs[o]._fwd]
              /\ dicts[objs[o]._inv] = last.pre[objs[o]._inv]

\* An update through the inverse view of a fresh copy of a non-empty mapping
\* changed the copy; the original still holds what both held before.
C9_Witness ==
    /\ last.op = "update"
    /\ Len(objs) = 2 * MaxMaps
    /\ last.self = Len(objs)
    /\ last.pre[objs[1]._fwd] = last.pre[objs[Len(objs) - 1]._fwd]
    /\ last.pre[objs[1]._fwd] # EmptyDict
    /\ last.fwd1 # last.fwd0
    /\ dicts[objs[1]._fwd] = last.pre[objs[1]._fwd]
    /\ dicts[objs[Len(objs) - 1]._fwd] # dicts[objs[1]._fwd]

\* The keys the input of the last call gives two different values: twice in
\* the sequence of pairs, or in a named pair and in the positional argument.
RepeatedKeys ==
    LET a == last.c.arg.items
        n == Len(a)
    IN  {In[j][1] : j \in {j \in 1..Len(In) :
            \E i \in 1..n : /\ i < j
                            /\ (j <= n => last.c.arg.form = "seq")
                            /\ a[i][1] = In[j][1] /\ a[i][2] # In[j][2]}}

C11_OnlyRaiseSurfaces ==
    (/\ last.op \in {"init", "update"}
     /\ last.c.on_dup_key # RAISE
     /\ last.c.on_dup_val # RAISE)
        => last.err = NoErr

\* An update without RAISE returned although its input repeats a key with
\* another value and a pair of it collides with a stored key and a stored value.
C11_Witness ==
    /\ last.op = "update"
    /\ last.c.on_dup_key # RAISE /\ last.c.on_dup_val # RAISE
    /\ last.c.on_dup_key # last.c.on_dup_val
    /\ RepeatedKeys # {}
    /\ \E i \in 1..Len(In) : /\ KeyCollides(last.fwd0, In[i][1], In[i][2])
                             /\ ValCollides(last.inv0, In[i][1], In[i][2])
    /\ last.err = NoErr

RECURSIVE Collapsed(_)
\* s without the repeated occurrences of its pairs: each pair where it is first.
Collapsed(s) ==
    IF Len(s) = 0 THEN << >>
    ELSE LET n == Len(s)
             h == Collapsed(SubSeq(s, 1, n - 1))
         IN  IF \E i \in 1..(n - 1) : s[i] = s[n] THEN h ELSE Append(h, s[n])

\* The last call with the repeated occurrences of its input removed: from the
\* sequence of pairs, and from the named pairs those the positional argument has.
CollapsedCall ==
    LET a  == last.c.arg.items
        kw == last.c.kw
        ix == {j \in 1..Len(kw) : \A i \in 1..Len(a) : a[i] # kw[j]}
        f[j \in 0..Len(kw)] ==
            IF j = 0 THEN << >> ELSE IF j \in ix THEN Append(f[j - 1], kw[j]) ELSE f[j - 1]
    IN  [last.c EXCEPT !.arg.items = Collapsed(a), !.kw = f[Len(kw)]]

\* The input of the last call has an exact duplicate pair.
HasExactDuplicate == Len(Collapsed(In)) < Len(In)

\* What the last call left and raised.
Outcome == [_fwd |-> last.fwd1, _inv |-> last.inv1, err |-> last.err]

NoConflict == \A i, j \in 1..Len(In) : (In[i][1] = In[j][1]) <=> (In[i][2] = In[j][2])

ItemSet(x) == {x.items[i] : i \in 1..Len(x.items)}

\* C13: two frozenbidict instances with the same set of items have the same
\* hash, whatever their iteration orders and whatever _HASH_NITEMS_MAX is;
\* and every hash() call on an instance returns what its first call returned.
C13_EqualItemsEqualHash ==
    /\ \A a, b \in DOMAIN frozen.insts :
          (/\ frozen.insts[a].calls > 0 /\ frozen.insts[b].calls > 0
           /\ ItemSet(frozen.insts[a]) = ItemSet(frozen.insts[b]))
              => frozen.insts[a].ret = frozen.insts[b].ret
    /\ \A a \in DOMAIN frozen.insts :
          frozen.insts[a].calls > 0 => frozen.insts[a].ret = frozen.insts[a].first

\* The same with every item taking part in the hash (_HASH_NITEMS_MAX is
\* None or not below the number of items).
C13_UncappedEqualHash ==
    (\A a \in DOMAIN frozen.insts :
        frozen._HASH_NITEMS_MAX = None \/ frozen._HASH_NITEMS_MAX >= Len(frozen.insts[a].items))
        => C13_EqualItemsEqualHash

\* What C14 says of the pair (k, v) of the last update, when k is stored
\* with another value and v under another key. Dropped: the update does not
\* leave k with v (a single pair: it leaves everything as it was); applied: a
\* single pair is in the mapping afterwards.
C14_OutcomeFor(k, v) ==
    LET kraise == last.c.on_dup_key = RAISE
        vraise == last.c.on_dup_val = RAISE
        ignore == IGNORE \in {last.c.on_dup_key, last.c.on_dup_val}
    IN  (KeyCollides(last.fwd0, k, v) /\ ValCollides(last.inv0, k, v)) =>
           /\ kraise => (last.err = KeyExistsError(k, Get(last.fwd0, k)) /\ NothingApplied)
           /\ (~kraise /\ vraise)
                 => (last.err = ValueExistsError(Get(last.inv0, v), v) /\ NothingApplied)
           /\ (~kraise /\ ~vraise) => last.err = NoErr
           /\ (~kraise /\ ~vraise /\ ignore)
                 => (Get(last.fwd1, k) # v /\ (Len(In) = 1 => NothingApplied))
           /\ (~kraise /\ ~vraise /\ ~ignore /\ Len(In) = 1) => Get(last.fwd1, k) = v

\* C14 as stated, for atomic updates: every pair of the update that collides
\* with a stored key and with a stored value makes the update raise KeyExists
\* under on_dup_key RAISE, else ValueExists under on_dup_val RAISE (nothing
\* applied), else is dropped under an IGNORE, else applied.
C14_AnyPair ==
    (last.op = "update" /\ last.c.atomic)
        => \A i \in 1..Len(In) : C14_OutcomeFor(In[i][1], In[i][2])

\* C14 amended: the same, for the first pair of the update's input.
C14_FirstPair ==
    (last.op = "update" /\ Len(In) >= 1) => C14_OutcomeFor(In[1][1], In[1][2])

\* The first pair of a batch collided with a stored key and a stored value
\* under RAISE for both: the update raised KeyExists.
C14_Witness ==
    /\ last.op = "update"
    /\ Len(In) >= 2
    /\ last.c.on_dup_key = RAISE /\ last.c.on_dup_val = RAISE
    /\ KeyCollides(last.fwd0, In[1][1], In[1][2])
    /\ ValCollides(last.inv0, In[1][1], In[1][2])
    /\ last.err.type = "KeyExists"

RECURSIVE OneAtATime(_, _, _)
\* The pairs of s applied in order, each as an atomic single-pair update
\* under OVERWRITE for keys and values.
OneAtATime(_fwd, _inv, s) ==
    IF Len(s) = 0 THEN [_fwd |-> _fwd, _inv |-> _inv, err |-> NoErr]
    ELSE LET r == _update(_fwd, _inv,
                          Call(OVERWRITE, OVERWRITE, TRUE,
                               [form |-> "seq", items |-> <<s[1]>>], << >>))
         IN  IF r.err # NoErr THEN r ELSE OneAtATime(r._fwd, r._inv, Tail(s))

\* C15: under OVERWRITE for keys and values, an atomic update (or a
\* construction) from a sequence of pairs ends in the mapping that the same
\* pairs give when applied one at a time, in order, as single-pair updates.
C15_BatchAsOneAtATime ==
    (/\ last.op \in {"init", "update"}
     /\ last.c.atomic
     /\ last.c.on_dup_key = OVERWRITE /\ last.c.on_dup_val = OVERWRITE
     /\ last.c.arg.form = "seq" /\ Len(last.c.kw) = 0)
        => Outcome = OneAtATime(last.fwd0, last.inv0, In)

\* _update with the input passed through _dedup_in also where
\* skip_dedup_update holds.
UpdateThroughDedupIn(_fwd, _inv, c) ==
    IF c.arg.form = "none" /\ Len(c.kw) = 0
    THEN [_fwd |-> _fwd, _inv |-> _inv, err |-> NoErr]
    ELSE
      LET st == Pull([_fwd |-> _fwd, _inv |-> _inv, gs |-> GenInit(c.arg),
                      out |-> << >>, err |-> NoErr],
                     1, c, FALSE, _fwd # EmptyDict)
          r  == ApplyAll(st._fwd, st._inv, st.out)
      IN  IF st.err # NoErr THEN [_fwd |-> st._fwd, _inv |-> st._inv, err |-> st.err]
          ELSE [_fwd |-> r._fwd, _inv |-> r._inv, err |-> NoErr]

\* C16: where _update skips the intra-batch pass (a single-item input, a
\* sole bidirectional-mapping argument, both policies OVERWRITE), the call
\* ends (mapping and error) as it would with the input passed through
\* _dedup_in under the same policies.
C16_SkipIsOptimization ==
    (last.op \in {"init", "update"} /\ skip_dedup_update(last.c))
        => Outcome = UpdateThroughDedupIn(last.fwd0, last.inv0, last.c)

\* C17: under IGNORE for keys and values an update (atomic or not, any
\* input) raises nothing and keeps every entry the mapping had, in both
\* dictionaries; every entry it adds is a pair of the input whose key and
\* value were both absent from the mapping before the call.
C17_IgnoreKeepsExisting ==
    (/\ last.op = "update"
     /\ last.c.on_dup_key = IGNORE /\ last.c.on_dup_val = IGNORE)
        => /\ last.err = NoErr
           /\ Items(last.fwd0) \subseteq Items(last.fwd1)
           /\ Items(last.inv0) \subseteq Items(last.inv1)
           /\ \A p \in Items(last.fwd1) \ Items(last.fwd0) :
                 /\ \E i \in 1..Len(In) : In[i] = p
                 /\ p[1] \notin DOMAIN last.fwd0
                 /\ p[2] \notin DOMAIN last.inv0

\* Under IGNORE for both, a batch with a pair on a stored key (with another
\* value) and a new pair left the old entry and added the new pair.
C17_Witness ==
    /\ last.op = "update"
    /\ last.c.on_dup_key = IGNORE /\ last.c.on_dup_val = IGNORE
    /\ \E i \in 1..Len(In) : KeyCollides(last.fwd0, In[i][1], In[i][2])
    /\ last.fwd0 # EmptyDict
    /\ Items(last.fwd1) # Items(last.fwd0)
    /\ Items(last.fwd0) \subseteq Items(last.fwd1)

\* C18: under RAISE for keys and values, a construction or atomic update
\* that returns without raising leaves exactly the entries the mapping had
\* together with the pairs of the input (sequence of pairs, mapping,
\* bidirectional mapping, named pairs, or positional plus named pairs).
C18_UnionOfInput ==
    (/\ last.op \in {"init", "update"}
     /\ last.c.atomic
     /\ last.c.on_dup_key = RAISE /\ last.c.on_dup_val = RAISE
     /\ last.err = NoErr)
        => /\ Items(last.fwd1) = Items(last.fwd0) \cup {In[i] : i \in 1..Len(In)}
           /\ Items(last.inv1) = SwappedItems(last.fwd1)

====
